---- MODULE Spec2Model ----
(***************************************************************************)
(* A model of telegram_beautifier.py: the relay between the end users of a *)
(* Telegram bot and one operator ("customer service"), with a persisted    *)
(* message log, a per-user auto-reply cooldown and a live dashboard.       *)
(*                                                                         *)
(* Python values are modelled as follows.                                  *)
(*   str    a sequence of characters; a character is a one-element string, *)
(*          a CJK character is written as its code point ("U+7528")        *)
(*   dict   a function from key names to values; a key that is missing is  *)
(*          missing from the DOMAIN                                        *)
(*   int    an integer                                                     *)
(*   datetime  a whole number of hours since the start of the run          *)
(* An exception is the field "raised" of the world a function returns.     *)
(*                                                                         *)
(* Spec handles the requests one at a time, each to completion: a webhook  *)
(* update or a dashboard command, with every outcome of the calls to       *)
(* Telegram and of the commits it makes; between two requests the clock    *)
(* may jump past the cooldown. GateSpec runs the auto-reply gate alone,    *)
(* the clock ticking by the hour. HomeSpec loads the dashboard page        *)
(* between the commands of the dashboard. ConcurrentSpec interleaves the   *)
(* auto-replies of two requests served at once.                            *)
(***************************************************************************)
EXTENDS Integers, Sequences, FiniteSets, TLC

VARIABLES
    messages,      \* table Message: the rows, in insertion order
    auto_replies,  \* table UserAutoReply: the rows, in insertion order
    calls,         \* the calls made to the Telegram API, each with its outcome
    emitted,       \* the SocketIO events emitted, each with its receivers
    now,           \* the clock read by datetime.utcnow()
    last,          \* the step taken last: a request with its response and log
    handled,       \* the number of steps taken
    fired,         \* per user id: the instant of the last successful upsert
    running        \* per request handled concurrently: its position and locals

vars ==
    <<messages, auto_replies, calls, emitted, now, last, handled, fired,
      running>>

(***************************************************************************)
(* Bounds of the model.                                                    *)
(***************************************************************************)
MaxSteps == 2
MaxTime == 2

(***************************************************************************)
(* config.json                                                             *)
(***************************************************************************)
BOT_TOKEN == <<"T", "K">>
SECURE_TOKEN == <<"s", "3">>
FORWARD_TO_ID == <<"9">>
WELCOME_MESSAGE == <<"W">>
COOLDOWN_HOURS == 1

(***************************************************************************)
(* Python's str operations.                                                *)
(***************************************************************************)
Digits == <<"0", "1", "2", "3", "4", "5", "6", "7", "8", "9">>

RECURSIVE Str(_)
Str(n) ==
    IF n < 0 THEN <<"-">> \o Str(-n)
    ELSE IF n < 10 THEN <<Digits[n + 1]>>
    ELSE Str(n \div 10) \o <<Digits[(n % 10) + 1]>>

\* The least index at which sub occurs in s, 0 when it does not: s.find(sub) + 1
Find(s, sub) ==
    LET hits == {i \in 1..(Len(s) - Len(sub) + 1) :
                    SubSeq(s, i, i + Len(sub) - 1) = sub}
    IN  IF hits = {} THEN 0 ELSE CHOOSE i \in hits : \A j \in hits : i <= j

\* sub in s
Contains(s, sub) == Find(s, sub) # 0

\* s.split(sep), for a non-empty sep
RECURSIVE Split(_, _)
Split(s, sep) ==
    LET i == Find(s, sep)
    IN  IF i = 0 THEN <<s>>
        ELSE <<SubSeq(s, 1, i - 1)>> \o Split(SubSeq(s, i + Len(sep), Len(s)), sep)

Whitespace == {" ", "\n", "\t"}

\* s.strip()
RECURSIVE Strip(_)
Strip(s) ==
    IF s = <<>> THEN s
    ELSE IF s[1] \in Whitespace THEN Strip(Tail(s))
    ELSE IF s[Len(s)] \in Whitespace THEN Strip(SubSeq(s, 1, Len(s) - 1))
    ELSE s

\* d.get(k, default)
Get(d, k, default) == IF k \in DOMAIN d THEN d[k] ELSE default

\* x or y, for strings
StrOr(x, y) == IF x # <<>> THEN x ELSE y

(***************************************************************************)
(* format_datetime: the stored UTC instant shifted by eight hours.          *)
(***************************************************************************)
ShanghaiOffset == 8

format_datetime(value) == [shanghai |-> value + ShanghaiOffset]

(***************************************************************************)
(* The world a handler runs in: the two tables, the calls made, the events *)
(* emitted, the lines logged at error or warning level, whether an         *)
(* exception is propagating, and the fuses that decide which fallible      *)
(* operation (a Telegram call, a commit) fails: the fuse-th one from here, *)
(* none when it is 0. A request has two fuses: one for the handler of the  *)
(* message, and next_fuse for the auto-reply that may follow it. A fuse    *)
(* that outlasts its handler leaves the world idle: the same outcome is    *)
(* drawn with the fuse 0.                                                  *)
(***************************************************************************)
World(f1, f2) ==
    [messages |-> messages, auto_replies |-> auto_replies, calls |-> calls,
     emitted |-> emitted, logged |-> <<>>, raised |-> FALSE, fuse |-> f1,
     next_fuse |-> f2, idle |-> FALSE, clock |-> now]

\* The outcome of the next fallible operation, and the world after it.
Failing(w) == w.fuse = 1
Burn(w) == [w EXCEPT !.fuse = IF @ = 0 THEN 0 ELSE @ - 1]
Raise(w, line) ==
    [w EXCEPT !.fuse = 0, !.raised = TRUE, !.logged = Append(@, line)]
\* an exception raised by a library call, which logs nothing itself
Throw(w) == [w EXCEPT !.fuse = 0, !.raised = TRUE]
Log(w, line) == [w EXCEPT !.logged = Append(@, line)]
\* except Exception as e: logging.error(...)
Caught(w, line) == [w EXCEPT !.raised = FALSE, !.logged = Append(@, line)]
\* The auto-reply starts: its fuse replaces the handler's.
Arm(w) ==
    [w EXCEPT !.fuse = w.next_fuse, !.next_fuse = 0,
              !.idle = w.idle \/ w.fuse > 0]
\* Every fuse drawn for the request has blown.
Spent(w) == w.fuse = 0 /\ w.next_fuse = 0 /\ ~w.idle

(***************************************************************************)
(* The Telegram API client. A call is recorded with the chat it addresses  *)
(* (the API takes the id as a number or as its decimal string), with what  *)
(* it carries, with its outcome, with the function that made it and with   *)
(* the instant it was made at.                                             *)
(***************************************************************************)
get_telegram_file_info(w, file_id, by) ==
    LET call == [api |-> "getFile", file_id |-> file_id, by |-> by,
                 at |-> w.clock]
    IN  IF Failing(w)
        THEN Raise([w EXCEPT !.calls = Append(@, call @@ [ok |-> FALSE])],
                   "Error getting file info")
        ELSE Burn([w EXCEPT !.calls = Append(@, call @@ [ok |-> TRUE])])

\* response.json()['result'] of getFile
FileInfo(file_id) == [file_id |-> file_id, file_path |-> <<"photos/", file_id>>]

FileUrl(file_info) ==
    <<"https://api.telegram.org/file/bot">> \o BOT_TOKEN \o <<"/">>
        \o file_info["file_path"]

\* A variant that logs a failure and carries on.
send_message_to_telegram_Swallowed(w, chat_id, text, by) ==
    LET call == [api |-> "sendMessage", chat_id |-> chat_id, text |-> text,
                 by |-> by, at |-> w.clock]
    IN  IF Failing(w)
        THEN Log([w EXCEPT !.calls = Append(@, call @@ [ok |-> FALSE]),
                           !.fuse = 0],
                 "Error sending message to Telegram")
        ELSE Burn([w EXCEPT !.calls = Append(@, call @@ [ok |-> TRUE])])

send_message_to_telegram(w, chat_id, text, by) ==
    LET call == [api |-> "sendMessage", chat_id |-> chat_id, text |-> text,
                 by |-> by, at |-> w.clock]
    IN  IF Failing(w)
        THEN Raise([w EXCEPT !.calls = Append(@, call @@ [ok |-> FALSE])],
                   "Error sending message to Telegram")
        ELSE Burn([w EXCEPT !.calls = Append(@, call @@ [ok |-> TRUE])])

\* A variant that logs a failure and carries on.
send_photo_to_telegram_Swallowed(w, chat_id, file_id, caption, by) ==
    LET call == [api |-> "sendPhoto", chat_id |-> chat_id, photo |-> file_id,
                 caption |-> caption, by |-> by, at |-> w.clock]
    IN  IF Failing(w)
        THEN Log([w EXCEPT !.calls = Append(@, call @@ [ok |-> FALSE]),
                           !.fuse = 0],
                 "Error sending photo to Telegram")
        ELSE Burn([w EXCEPT !.calls = Append(@, call @@ [ok |-> TRUE])])

send_photo_to_telegram(w, chat_id, file_id, caption, by) ==
    LET call == [api |-> "sendPhoto", chat_id |-> chat_id, photo |-> file_id,
                 caption |-> caption, by |-> by, at |-> w.clock]
    IN  IF Failing(w)
        THEN Raise([w EXCEPT !.calls = Append(@, call @@ [ok |-> FALSE])],
                   "Error sending photo to Telegram")
        ELSE Burn([w EXCEPT !.calls = Append(@, call @@ [ok |-> TRUE])])

(***************************************************************************)
(* The tables. A column that is NULL is missing from the row's DOMAIN.     *)
(***************************************************************************)
\* A variant whose failed commit goes unnoticed.
AddMessage_Unnoticed(w, fields) ==
    IF Failing(w)
    THEN [w EXCEPT !.fuse = 0]
    ELSE Burn([w EXCEPT !.messages =
                    Append(@, [id |-> Len(@) + 1] @@ fields)])

\* A variant that keeps one row: the one stored last.
AddMessage_InPlace(w, fields) ==
    IF Failing(w)
    THEN Throw(w)
    ELSE Burn([w EXCEPT !.messages = <<[id |-> 1] @@ fields>>])

\* db.session.add(Message(...)); db.session.commit(). A commit that fails
\* stores nothing and raises; the session is taken to be usable afterwards.
AddMessage(w, fields) ==
    IF Failing(w)
    THEN Throw(w)
    ELSE Burn([w EXCEPT !.messages =
                    Append(@, [id |-> Len(@) + 1] @@ fields)])

\* UserAutoReply.query.filter_by(user_id=user_id).first(): the row's index, or 0
FirstAutoReply(table, user_id) ==
    LET hits == {i \in 1..Len(table) : table[i].user_id = user_id}
    IN  IF hits = {} THEN 0 ELSE CHOOSE i \in hits : \A j \in hits : i <= j

\* socketio.emit / emit(..., broadcast=True): every connected session receives
Sessions == {"s1", "s2"}

Broadcast(w, event, data) ==
    [w EXCEPT !.emitted = Append(@, [event |-> event, data |-> data,
                                      to |-> Sessions])]

\* A variant that emits to every session.
EmitTo_Everyone(w, sid, event, data) == Broadcast(w, event, data)

\* emit(..., broadcast=False) inside a SocketIO handler: the session of the request
EmitTo(w, sid, event, data) ==
    [w EXCEPT !.emitted = Append(@, [event |-> event, data |-> data,
                                      to |-> {sid}])]

(***************************************************************************)
(* The auto-reply gate. Its query is taken to succeed: the fallible        *)
(* operations are the calls to Telegram and the commits.                   *)
(***************************************************************************)
\* A variant that fires at the instant the cooldown ends.
should_send_auto_reply_AtEnd(table, user_id, utcnow) ==
    LET i == FirstAutoReply(table, user_id)
    IN  IF i = 0 THEN TRUE
        ELSE IF "last_auto_reply" \notin DOMAIN table[i] THEN TRUE
        ELSE utcnow >= table[i].last_auto_reply + COOLDOWN_HOURS

should_send_auto_reply(table, user_id, utcnow) ==
    LET i == FirstAutoReply(table, user_id)
    IN  IF i = 0 THEN TRUE
        ELSE IF "last_auto_reply" \notin DOMAIN table[i] THEN TRUE
        ELSE utcnow > table[i].last_auto_reply + COOLDOWN_HOURS

\* A variant that updates the first row of the table, whoever it belongs to.
UpsertAutoReply_FirstRow(table, user_id, utcnow) ==
    IF table = <<>>
    THEN <<[id |-> 1, user_id |-> user_id, last_auto_reply |-> utcnow]>>
    ELSE [table EXCEPT ![1] =
            [id |-> @.id, user_id |-> @.user_id, last_auto_reply |-> utcnow]]

\* The table after update_auto_reply_record's commit.
UpsertAutoReply(table, user_id, utcnow) ==
    LET i == FirstAutoReply(table, user_id)
    IN  IF i = 0
        THEN Append(table, [id |-> Len(table) + 1, user_id |-> user_id,
                            last_auto_reply |-> utcnow])
        ELSE [table EXCEPT ![i] =
                [id |-> @.id, user_id |-> @.user_id, last_auto_reply |-> utcnow]]

update_auto_reply_record(w, user_id, utcnow) ==
    IF Failing(w)
    THEN Throw(w)
    ELSE Burn([w EXCEPT !.auto_replies = UpsertAutoReply(@, user_id, utcnow)])

\* A variant that does not exempt the operator.
AutoReplyDue_AnyChat(table, chat_id, utcnow) ==
    should_send_auto_reply(table, Str(chat_id), utcnow)

\* The condition under which handle_auto_reply sends the welcome message.
AutoReplyDue(table, chat_id, utcnow) ==
    /\ Str(chat_id) # FORWARD_TO_ID
    /\ should_send_auto_reply(table, Str(chat_id), utcnow)

BotMessage(utcnow) ==
    [sender_id |-> BOT_TOKEN, sender_name |-> <<"B", "o", "t">>,
     text |-> WELCOME_MESSAGE, timestamp |-> utcnow]

handle_auto_reply(w, chat_id, utcnow) ==
    IF AutoReplyDue(w.auto_replies, chat_id, utcnow)
    THEN LET w1 == send_message_to_telegram(w, Str(chat_id), WELCOME_MESSAGE,
                                            "handle_auto_reply")
             w2 == update_auto_reply_record(w1, Str(chat_id), utcnow)
             w3 == AddMessage(w2, BotMessage(utcnow))
             w4 == Broadcast(w3, "new_message",
                        [sender_id |-> BOT_TOKEN,
                         sender_name |-> <<"B", "o", "t">>,
                         text |-> WELCOME_MESSAGE,
                         timestamp |-> format_datetime(utcnow)])
             done == IF w1.raised THEN w1
                     ELSE IF w2.raised THEN w2
                     ELSE IF w3.raised THEN w3
                     ELSE w4
         IN  IF done.raised THEN Caught(done, "Error sending auto-reply")
             ELSE done
    ELSE w

(***************************************************************************)
(* The messages of end users.                                              *)
(***************************************************************************)
\* A variant that leaves the marker out.
ForwardText_NoMarker(chat_id, sender_name, text) ==
    <<"U+7528", "U+6237", " ">> \o sender_name
        \o <<" ", "U+53D1", "U+6765", "U+6D88", "U+606F", ":", "\n">> \o text

\* f"用户 {sender_name} (ID: {chat_id}) 发来消息:\n{text}"
ForwardText(chat_id, sender_name, text) ==
    <<"U+7528", "U+6237", " ">> \o sender_name \o <<" ", "(", "I", "D", ":", " ">>
        \o Str(chat_id)
        \o <<")", " ", "U+53D1", "U+6765", "U+6D88", "U+606F", ":", "\n">>
        \o text

\* f"用户 {sender_name} (ID: {chat_id}) 发来图片: {caption}"
ForwardCaption(chat_id, sender_name, caption) ==
    <<"U+7528", "U+6237", " ">> \o sender_name \o <<" ", "(", "I", "D", ":", " ">>
        \o Str(chat_id)
        \o <<")", " ", "U+53D1", "U+6765", "U+56FE", "U+7247", ":", " ">>
        \o caption

\* f"[图片] {file_url} {caption}"
PhotoText(file_url, caption) ==
    <<"[", "U+56FE", "U+7247", "]", " ">> \o file_url \o <<" ">> \o caption

handle_text_message(w, chat_id, sender_name, text, utcnow) ==
    LET w1 == AddMessage(w, [sender_id |-> Str(chat_id),
                             sender_name |-> sender_name,
                             text |-> text, timestamp |-> utcnow])
        w2 == send_message_to_telegram(w1, FORWARD_TO_ID,
                  ForwardText(chat_id, sender_name, text), "handle_text_message")
        w3 == Broadcast(w2, "new_message",
                  [sender_id |-> chat_id, sender_name |-> sender_name,
                   text |-> text, timestamp |-> format_datetime(utcnow)])
    IN  IF w1.raised THEN w1
        ELSE IF w2.raised THEN w2
        ELSE w3

handle_photo_message(w, chat_id, sender_name, file_id, caption, utcnow) ==
    LET w1 == get_telegram_file_info(w, file_id, "handle_photo_message")
        file_url == FileUrl(FileInfo(file_id))
        w2 == send_photo_to_telegram(w1, FORWARD_TO_ID, file_id,
                  ForwardCaption(chat_id, sender_name, caption),
                  "handle_photo_message")
        w3 == AddMessage(w2, [sender_id |-> Str(chat_id),
                              sender_name |-> sender_name,
                              text |-> PhotoText(file_url, caption),
                              timestamp |-> utcnow,
                              media_type |-> "photo", media_url |-> file_url])
        w4 == Broadcast(w3, "new_message",
                  [sender_id |-> chat_id, sender_name |-> sender_name,
                   text |-> PhotoText(file_url, caption),
                   timestamp |-> format_datetime(utcnow)])
        done == IF w1.raised THEN w1
                ELSE IF w2.raised THEN w2
                ELSE IF w3.raised THEN w3
                ELSE w4
    IN  IF done.raised THEN Caught(done, "Error handling photo message")
        ELSE done

(***************************************************************************)
(* The operator's replies.                                                 *)
(***************************************************************************)
\* reply_to_message.get('caption', '') or reply_to_message.get('text', '')
OriginalText(reply_to_message) ==
    StrOr(Get(reply_to_message, "caption", <<>>),
          Get(reply_to_message, "text", <<>>))

\* original_text.split('ID:')[1].split(')')[0].strip(), where the token occurs
TargetUserId(original_text) ==
    Strip(Split(Split(original_text, <<"I", "D", ":">>)[2], <<")">>)[1])

\* split('ID:')[1] raises IndexError where the token does not occur
NoSecondPiece(original_text) ==
    Len(Split(original_text, <<"I", "D", ":">>)) < 2

\* message['photo'][-1]['file_id']
LastFileId(message) == message["photo"][Len(message["photo"])]["file_id"]

You == <<"Y", "o", "u">>

\* The Message row handle_customer_service_reply stores for a relayed text.
ReplyTextMessage(text, utcnow) ==
    [sender_id |-> FORWARD_TO_ID, sender_name |-> You, text |-> text,
     timestamp |-> utcnow]

\* The body of handle_customer_service_reply's try block.
RelayReply(w, message, original_text, utcnow) ==
    LET target_user_id == TargetUserId(original_text)
    IN  IF NoSecondPiece(original_text) THEN Throw(w)
        ELSE IF "photo" \in DOMAIN message
        THEN LET file_id == LastFileId(message)
                 caption == Get(message, "caption", <<>>)
                 w1 == get_telegram_file_info(w, file_id,
                           "handle_customer_service_reply")
                 file_url == FileUrl(FileInfo(file_id))
                 w2 == send_photo_to_telegram(w1, target_user_id, file_id,
                           caption, "handle_customer_service_reply")
                 w3 == AddMessage(w2,
                           [sender_id |-> FORWARD_TO_ID, sender_name |-> You,
                            text |-> PhotoText(file_url, caption),
                            timestamp |-> utcnow,
                            media_type |-> "photo", media_url |-> file_url])
                 w4 == Broadcast(w3, "new_message",
                           [sender_id |-> FORWARD_TO_ID, sender_name |-> You,
                            text |-> PhotoText(file_url, caption),
                            timestamp |-> format_datetime(utcnow)])
             IN  IF w1.raised THEN w1
                 ELSE IF w2.raised THEN w2
                 ELSE IF w3.raised THEN w3
                 ELSE w4
        ELSE IF "text" \in DOMAIN message
        THEN LET text == message["text"]
                 w1 == send_message_to_telegram(w, target_user_id, text,
                           "handle_customer_service_reply")
                 w2 == AddMessage(w1, ReplyTextMessage(text, utcnow))
                 w3 == Broadcast(w2, "new_message",
                           [sender_id |-> FORWARD_TO_ID, sender_name |-> You,
                            text |-> text,
                            timestamp |-> format_datetime(utcnow)])
             IN  IF w1.raised THEN w1
                 ELSE IF w2.raised THEN w2
                 ELSE w3
        ELSE w

\* A variant that lets every quoted message through.
HasIdToken_Unchecked(original_text) == TRUE

\* 'ID:' in original_text
HasIdToken(original_text) == Contains(original_text, <<"I", "D", ":">>)

handle_customer_service_reply(w, message, utcnow) ==
    IF \/ "reply_to_message" \notin DOMAIN message
       \/ DOMAIN message["reply_to_message"] = {}
    THEN Log(w, "No reply_to_message found")
    ELSE LET original_text == OriginalText(message["reply_to_message"])
         IN  IF ~HasIdToken(original_text)
             THEN Log(w, "No user ID found in original message")
             ELSE LET done == RelayReply(w, message, original_text, utcnow)
                  IN  IF done.raised
                      THEN Caught(done, "Error handling customer service reply")
                      ELSE done

(***************************************************************************)
(* The webhook.                                                            *)
(***************************************************************************)
\* A variant that takes no message for an operator's reply.
IsOperatorReply_Never(message) == FALSE

\* str(chat_id) == FORWARD_TO_ID and 'reply_to_message' in message
IsOperatorReply(message) ==
    /\ Str(message["chat"]["id"]) = FORWARD_TO_ID
    /\ "reply_to_message" \in DOMAIN message

telegram_webhook(w, data, utcnow) ==
    IF "message" \in DOMAIN data
    THEN LET message == data["message"]
             chat_id == message["chat"]["id"]
             sender_name ==
                 Get(message["chat"], "first_name",
                     <<"U", "n", "k", "n", "o", "w", "n">>)
         IN  IF IsOperatorReply(message)
             THEN handle_customer_service_reply(w, message, utcnow)
             ELSE IF Get(message["chat"], "type", "") = "private"
             THEN IF "text" \in DOMAIN message
                  THEN LET w1 == handle_text_message(w, chat_id, sender_name,
                                     message["text"], utcnow)
                       IN  IF w1.raised THEN w1
                           ELSE handle_auto_reply(Arm(w1), chat_id, utcnow)
                  ELSE IF "photo" \in DOMAIN message
                  THEN LET w1 == handle_photo_message(w, chat_id, sender_name,
                                     LastFileId(message),
                                     Get(message, "caption", <<>>), utcnow)
                       IN  handle_auto_reply(Arm(w1), chat_id, utcnow)
                  ELSE w
             ELSE w
    ELSE w

\* What Flask answers: the handler's return value, or 500 for an exception.
Response(w) == IF w.raised THEN [error |-> 500] ELSE [status |-> "ok"]

(***************************************************************************)
(* The dashboard's send_message event.                                     *)
(***************************************************************************)
\* The Message row handle_send_message stores.
DashboardMessage(chat_id, text, utcnow) ==
    [sender_id |-> chat_id, sender_name |-> You, text |-> text,
     timestamp |-> utcnow]

\* token != SECURE_TOKEN, for token = data.get('secure_token')
BadToken(data) ==
    \/ "secure_token" \notin DOMAIN data
    \/ data["secure_token"] # SECURE_TOKEN

\* not chat_id or not text
MissingFields(data) ==
    \/ Get(data, "sender_id", <<>>) = <<>>
    \/ Get(data, "text", <<>>) = <<>>

handle_send_message(w, sid, data, utcnow) ==
    IF BadToken(data)
    THEN EmitTo(Log(w, "Invalid secure token received"), sid, "error",
                [error |-> "Invalid secure_token"])
    ELSE IF MissingFields(data)
    THEN EmitTo(Log(w, "Invalid data received for sending message"), sid,
                "error", [error |-> "Missing required fields"])
    ELSE LET chat_id == data["sender_id"]
             text == data["text"]
             w1 == send_message_to_telegram(w, chat_id, text,
                       "handle_send_message")
             w2 == AddMessage(w1, DashboardMessage(chat_id, text, utcnow))
             w3 == Broadcast(w2, "new_message",
                       [sender_id |-> chat_id, sender_name |-> You,
                        text |-> text,
                        timestamp |-> format_datetime(utcnow)])
             done == IF w1.raised THEN w1
                     ELSE IF w2.raised THEN w2
                     ELSE w3
         IN  IF done.raised
             THEN EmitTo(Caught(done, "Error sending message"), sid, "error",
                         [error |-> "Failed to send message"])
             ELSE done

(***************************************************************************)
(* The requests the model draws from: three private chats (two end users   *)
(* and the operator), each sending a text, a photo or neither, and a group *)
(* chat; the operator may quote any message its chat holds. The first end  *)
(* user has no first name, the second one's holds the token "ID:".         *)
(***************************************************************************)
Hi == <<"h", "i">>
Photo == <<[file_id |-> "small"], [file_id |-> "large"]>>

PrivateChats ==
    { [id |-> 7, type |-> "private"],
      [id |-> 12, type |-> "private",
       first_name |-> <<"I", "D", ":", "7", ")">>],
      [id |-> 9, type |-> "private", first_name |-> <<"C", "S">>] }

GroupChat == [id |-> -5, type |-> "group"]

Contents ==
    { [text |-> Hi], [photo |-> Photo, caption |-> <<"c">>],
      [sticker |-> "s"] }

\* The messages of the operator's chat that a reply can quote: those the bot
\* delivered there, and one the operator wrote.
Delivered(call, i) ==
    IF call.api = "sendMessage"
    THEN [message_id |-> i, text |-> call.text]
    ELSE [message_id |-> i, caption |-> call.caption, photo |-> Photo]

Quotable ==
    { Delivered(calls[i], i) :
        i \in {j \in 1..Len(calls) : /\ calls[j].ok
                                     /\ calls[j].api # "getFile"
                                     /\ calls[j].chat_id = FORWARD_TO_ID} }
    \cup { [message_id |-> 0, text |-> <<"o", "k">>] }

WebhookData ==
    { [message |-> [chat |-> chat] @@ content] :
        chat \in PrivateChats, content \in Contents }
    \cup
    { [message |-> [chat |-> chat, reply_to_message |-> quoted] @@ content] :
        chat \in {c \in PrivateChats : Str(c.id) = FORWARD_TO_ID},
        content \in Contents, quoted \in Quotable }
    \cup { [message |-> [chat |-> GroupChat, text |-> Hi]], [update_id |-> 1] }

DashboardData ==
    { [sender_id |-> <<"7">>, text |-> Hi],
      [secure_token |-> <<"x">>, sender_id |-> <<"7">>, text |-> Hi],
      [secure_token |-> SECURE_TOKEN, text |-> Hi],
      [secure_token |-> SECURE_TOKEN, sender_id |-> <<"7">>, text |-> <<>>],
      [secure_token |-> SECURE_TOKEN, sender_id |-> <<"7">>, text |-> Hi] }

\* The fuses: a request makes at most three fallible operations before the
\* auto-reply and three in it.
Fuses == 0..3

(***************************************************************************)
(* The state after the tables were created and before any request.         *)
(***************************************************************************)
Init ==
    /\ messages = <<>>
    /\ auto_replies = <<>>
    /\ calls = <<>>
    /\ emitted = <<>>
    /\ now = 0
    /\ last = [endpoint |-> "none"]
    /\ handled = 0
    /\ fired = <<>>
    /\ running = <<>>

\* The instants of the successful upserts, per user id, after a request
\* from chat_id left the table as `table`.
Fired(table, chat_id) ==
    IF table # auto_replies THEN (Str(chat_id) :> now) @@ fired ELSE fired

\* POST /<BOT_TOKEN>/webhook
Webhook ==
    /\ handled < MaxSteps
    /\ \E data \in WebhookData, f1 \in Fuses, f2 \in Fuses :
         LET w == telegram_webhook(World(f1, f2), data, now)
         IN  /\ Spent(w)
             /\ messages' = w.messages
             /\ auto_replies' = w.auto_replies
             /\ calls' = w.calls
             /\ emitted' = w.emitted
             /\ last' = [endpoint |-> "webhook", data |-> data,
                         response |-> Response(w), logged |-> w.logged]
             /\ fired' = IF "message" \in DOMAIN data
                         THEN Fired(w.auto_replies, data["message"]["chat"]["id"])
                         ELSE fired
    /\ handled' = handled + 1
    /\ now' = now
    /\ UNCHANGED running

\* SocketIO event send_message from the dashboard session sid
DashboardSend ==
    /\ handled < MaxSteps
    /\ \E sid \in Sessions, data \in DashboardData, f1 \in Fuses :
         LET w == handle_send_message(World(f1, 0), sid, data, now)
         IN  /\ Spent(w)
             /\ messages' = w.messages
             /\ auto_replies' = w.auto_replies
             /\ calls' = w.calls
             /\ emitted' = w.emitted
             /\ last' = [endpoint |-> "send_message", sid |-> sid,
                         data |-> data, logged |-> w.logged]
    /\ handled' = handled + 1
    /\ UNCHANGED <<now, fired, running>>

\* No request arrives for longer than the cooldown.
Pause ==
    /\ handled < MaxSteps
    /\ now' = now + COOLDOWN_HOURS + 1
    /\ last' = [endpoint |-> "pause"]
    /\ handled' = handled + 1
    /\ UNCHANGED <<messages, auto_replies, calls, emitted, fired, running>>

Next == Webhook \/ DashboardSend \/ Pause

Spec == Init /\ [][Next]_vars

(***************************************************************************)
(* The gate on its own: the table as messages.db may hold it when the      *)
(* program starts (last_auto_reply is nullable), the clock ticking by the  *)
(* hour, and update_auto_reply_record called for any user at any instant.  *)
(***************************************************************************)
GateUsers == {<<"7">>, <<"1", "2">>}

GateTables ==
    { <<>>,
      <<[id |-> 1, user_id |-> <<"7">>]>>,
      <<[id |-> 1, user_id |-> <<"1", "2">>],
        [id |-> 2, user_id |-> <<"7">>, last_auto_reply |-> 0]>> }

GateInit ==
    /\ messages = <<>>
    /\ auto_replies \in GateTables
    /\ calls = <<>>
    /\ emitted = <<>>
    /\ now = 0
    /\ last = [endpoint |-> "none"]
    /\ handled = 0
    /\ fired = <<>>
    /\ running = <<>>

Tick ==
    /\ now < MaxTime
    /\ now' = now + 1
    /\ UNCHANGED <<messages, auto_replies, calls, emitted, last, handled, fired,
                   running>>

\* update_auto_reply_record(user_id), whose commit succeeds or fails
RecordFired ==
    \E user_id \in GateUsers, f1 \in 0..1 :
       LET w == update_auto_reply_record(World(f1, 0), user_id, now)
       IN  /\ auto_replies' = w.auto_replies
           /\ fired' = IF w.raised THEN fired ELSE (user_id :> now) @@ fired
           /\ last' = [endpoint |-> "update_auto_reply_record",
                       user_id |-> user_id, raised |-> w.raised]
           /\ UNCHANGED <<messages, calls, emitted, now, handled, running>>

GateNext == Tick \/ RecordFired

GateSpec == GateInit /\ [][GateNext]_vars

(***************************************************************************)
(* The dashboard page. SQL leaves the order of the rows that tie on the    *)
(* ORDER BY column to the engine: the query may return them in any order.  *)
(***************************************************************************)
HomeLimit == 5000

\* Message.query.order_by(Message.timestamp.desc()): the orders of the rows
\* (as sequences of their indices) that the query may return them in
TimestampDesc(rows) ==
    { p \in [1..Len(rows) -> 1..Len(rows)] :
        /\ \A i, j \in 1..Len(rows) : i # j => p[i] # p[j]
        /\ \A i, j \in 1..Len(rows) :
              i < j => rows[p[i]].timestamp >= rows[p[j]].timestamp }

\* .limit(limit).all() of the rows in the order p, and then messages.reverse()
recentMessages(rows, limit, p) ==
    LET n == IF limit < Len(rows) THEN limit ELSE Len(rows)
    IN  [i \in 1..n |-> rows[p[n + 1 - i]]]

\* home(): 403 for a wrong token, else the page with the window of messages
home(rows, token, limit, p) ==
    IF token # SECURE_TOKEN THEN [error |-> 403]
    ELSE [messages |-> recentMessages(rows, limit, p)]

\* GET /?secure_token=...; the window is read with the limit of the source
\* and with limits that the model's tables exceed
Home ==
    /\ \E token \in {SECURE_TOKEN, <<"x">>},
          limit \in (1..MaxSteps) \cup {HomeLimit},
          p \in TimestampDesc(messages) :
         last' = [endpoint |-> "home", token |-> token, limit |-> limit,
                  response |-> home(messages, token, limit, p)]
    /\ UNCHANGED <<messages, auto_replies, calls, emitted, now, handled, fired,
                   running>>

\* The dashboard on its own: commands sent from it and pages loaded, the
\* clock ticking by the hour.
HomeNext == DashboardSend \/ Tick \/ Home

HomeSpec == Init /\ [][HomeNext]_vars

(***************************************************************************)
(* Two webhook requests served at once, as a server with threads or worker *)
(* processes serves them, each by its own database session. A request is   *)
(* followed from its call of handle_auto_reply, one step per operation on  *)
(* what the requests share: the gate's query, the welcome's send, the      *)
(* query of update_auto_reply_record, its commit, and the commit of the    *)
(* Bot message with its broadcast. user_id is UNIQUE: the commit of a      *)
(* second row for a user raises IntegrityError.                            *)
(***************************************************************************)
Requests == {"r1", "r2"}
ConcurrentChats == {7, 12}

ConcurrentInit ==
    /\ messages = <<>>
    /\ auto_replies \in GateTables
    /\ calls = <<>>
    /\ emitted = <<>>
    /\ now = 0
    /\ last = [endpoint |-> "none"]
    /\ handled = 0
    /\ fired = <<>>
    /\ running = [r \in Requests |-> [pc |-> "idle"]]

\* telegram_webhook has relayed a message of chat_id and calls handle_auto_reply
Arrive ==
    /\ \E r \in Requests, chat_id \in ConcurrentChats :
          /\ running[r].pc = "idle"
          /\ running' = [running EXCEPT ![r] =
                            [pc |-> "gate", chat_id |-> chat_id, found |-> 0,
                             logged |-> <<>>]]
    /\ UNCHANGED <<messages, auto_replies, calls, emitted, now, last, handled,
                   fired>>

\* if str(chat_id) != FORWARD_TO_ID and should_send_auto_reply(str(chat_id)):
ReadGate ==
    /\ \E r \in Requests :
          /\ running[r].pc = "gate"
          /\ running' = [running EXCEPT ![r].pc =
                            IF AutoReplyDue(auto_replies, running[r].chat_id, now)
                            THEN "send" ELSE "done"]
    /\ UNCHANGED <<messages, auto_replies, calls, emitted, now, last, handled,
                   fired>>

\* send_message_to_telegram(chat_id, WELCOME_MESSAGE), delivered or not
SendWelcome ==
    /\ \E r \in Requests, f1 \in 0..1 :
          LET w == send_message_to_telegram(World(f1, 0),
                       Str(running[r].chat_id), WELCOME_MESSAGE,
                       "handle_auto_reply")
          IN  /\ running[r].pc = "send"
              /\ calls' = w.calls
              /\ running' = [running EXCEPT ![r] =
                     IF w.raised
                     THEN [@ EXCEPT !.pc = "done",
                              !.logged = Caught(w, "Error sending auto-reply").logged]
                     ELSE [@ EXCEPT !.pc = "find"]]
    /\ UNCHANGED <<messages, auto_replies, emitted, now, last, handled, fired>>

\* user_record = UserAutoReply.query.filter_by(user_id=user_id).first()
FindRecord ==
    /\ \E r \in Requests :
          /\ running[r].pc = "find"
          /\ running' = [running EXCEPT ![r] =
                 [@ EXCEPT !.pc = "commit",
                           !.found = FirstAutoReply(auto_replies,
                                                    Str(running[r].chat_id))]]
    /\ UNCHANGED <<messages, auto_replies, calls, emitted, now, last, handled,
                   fired>>

\* db.session.add(user_record); db.session.commit(): the insert of a row for
\* a user who has one by now fails, as any commit may
CommitRecord ==
    /\ \E r \in Requests, f1 \in 0..1 :
          LET user_id == Str(running[r].chat_id)
              taken == /\ running[r].found = 0
                       /\ FirstAutoReply(auto_replies, user_id) # 0
              w == IF taken THEN Throw(World(0, 0))
                   ELSE update_auto_reply_record(World(f1, 0), user_id, now)
          IN  /\ running[r].pc = "commit"
              /\ auto_replies' = w.auto_replies
              /\ running' = [running EXCEPT ![r] =
                     IF w.raised
                     THEN [@ EXCEPT !.pc = "done",
                              !.logged = Caught(w, "Error sending auto-reply").logged]
                     ELSE [@ EXCEPT !.pc = "store"]]
    /\ UNCHANGED <<messages, calls, emitted, now, last, handled, fired>>

\* the Bot message: db.session.add, commit and socketio.emit
StoreBotMessage ==
    /\ \E r \in Requests, f1 \in 0..1 :
          LET w1 == AddMessage(World(f1, 0), BotMessage(now))
              w2 == Broadcast(w1, "new_message",
                        [sender_id |-> BOT_TOKEN,
                         sender_name |-> <<"B", "o", "t">>,
                         text |-> WELCOME_MESSAGE,
                         timestamp |-> format_datetime(now)])
              w == IF w1.raised THEN Caught(w1, "Error sending auto-reply")
                   ELSE w2
          IN  /\ running[r].pc = "store"
              /\ messages' = w.messages
              /\ emitted' = w.emitted
              /\ running' = [running EXCEPT ![r] =
                     [@ EXCEPT !.pc = "done", !.logged = w.logged]]
    /\ UNCHANGED <<auto_replies, calls, now, last, handled, fired>>

ConcurrentNext ==
    \/ Arrive
    \/ ReadGate
    \/ SendWelcome
    \/ FindRecord
    \/ CommitRecord
    \/ StoreBotMessage
    \/ Tick

ConcurrentSpec == ConcurrentInit /\ [][ConcurrentNext]_vars

(***************************************************************************)
(* What the properties below read off a step.                              *)
(***************************************************************************)
\* The step handled a webhook request that carries a message.
HasMessage(l) == l.endpoint = "webhook" /\ "message" \in DOMAIN l.data
ChatOf(l) == l.data["message"]["chat"]
\* ... sent by the operator's chat
FromOperator(l) == HasMessage(l) /\ Str(ChatOf(l).id) = FORWARD_TO_ID
\* ... an operator's message that quotes another one
QuotingReply(l) ==
    FromOperator(l) /\ "reply_to_message" \in DOMAIN l.data["message"]
\* ... a private text, or a private photo, that quotes nothing or is not the
\* operator's
PrivateMessage(l) ==
    HasMessage(l) /\ ~QuotingReply(l) /\ ChatOf(l).type = "private"
PrivateText(l) == PrivateMessage(l) /\ "text" \in DOMAIN l.data["message"]
PrivatePhoto(l) ==
    /\ PrivateMessage(l)
    /\ "text" \notin DOMAIN l.data["message"]
    /\ "photo" \in DOMAIN l.data["message"]
\* The display name of the sender
NameOf(l) == IF "first_name" \in DOMAIN ChatOf(l) THEN ChatOf(l).first_name
             ELSE <<"U", "n", "k", "n", "o", "w", "n">>
Acknowledged(l) == l.response = [status |-> "ok"]

\* The successful calls that delivered something to a chat
Sent(log) == SelectSeq(log, LAMBDA c : c.ok /\ c.api # "getFile")
\* The welcome messages delivered
Welcomes(log) == SelectSeq(log, LAMBDA c : c.ok /\ c.by = "handle_auto_reply")
\* The rows stored for the automated messages
BotMessages(rows) ==
    SelectSeq(rows, LAMBDA m : m.sender_name = <<"B", "o", "t">>)
\* What the step appended to a log
Added(before, after) == SubSeq(after, Len(before) + 1, Len(after))

(***************************************************************************)
(* C1. Correlation round trip: whatever a text or a photo of an end user   *)
(* makes the program forward to the operator, a reply quoting it is        *)
(* correlated to the id of that end user.                                  *)
(***************************************************************************)
C1_RoundTrip ==
    [][\A i \in (Len(calls) + 1)..Len(calls') :
          ( /\ calls'[i].ok
            /\ calls'[i].by \in {"handle_text_message", "handle_photo_message"}
            /\ calls'[i].api # "getFile" )
          => TargetUserId(OriginalText(Delivered(calls'[i], i)))
                = Str(ChatOf(last').id)]_vars

(***************************************************************************)
(* C2. Whatever the webhook receives and whichever call or commit fails,   *)
(* the webhook answers with its fixed acknowledgement.                     *)
(***************************************************************************)
C2_AlwaysAcknowledged == last.endpoint = "webhook" => Acknowledged(last)

(***************************************************************************)
(* C3. Two welcome messages delivered to the same end user are more than   *)
(* the cooldown apart.                                                     *)
(***************************************************************************)
C3_WelcomesApart ==
    LET ws == Welcomes(calls)
    IN  \A i, j \in 1..Len(ws) :
           (i < j /\ ws[i].chat_id = ws[j].chat_id)
           => ws[j].at > ws[i].at + COOLDOWN_HOURS

\* What C4 asks of a state, and of a step.
C4_State ==
    /\ \A i \in 1..Len(calls) :
          calls[i].by = "handle_auto_reply" => calls[i].chat_id # FORWARD_TO_ID
    /\ \A i \in 1..Len(auto_replies) : auto_replies[i].user_id # FORWARD_TO_ID

C4_Step ==
    FromOperator(last')
    => /\ BotMessages(messages') = BotMessages(messages)
       /\ Welcomes(calls') = Welcomes(calls)
       /\ auto_replies' = auto_replies

(***************************************************************************)
(* C4. The operator is never welcomed: no welcome message is sent to the   *)
(* operator's chat, no UserAutoReply row holds its id, and a request of    *)
(* the operator, a private text or photo that quotes nothing included,     *)
(* stores no Bot message and delivers no welcome.                          *)
(***************************************************************************)
C4_OperatorNeverWelcomed == []C4_State /\ [][C4_Step]_vars

\* The operator's private text that quotes nothing was relayed like a user's.
C4_Witness ==
    /\ FromOperator(last)
    /\ PrivateText(last)
    /\ Acknowledged(last)
    /\ last.logged = <<>>
    /\ calls # <<>>
    /\ calls[Len(calls)].by = "handle_text_message"
    /\ calls[Len(calls)].ok
    /\ messages[Len(messages)].sender_id = FORWARD_TO_ID

\* What C5 reads off an operator's reply, and asks of a step.
QuotedText(l) ==
    LET quoted == l.data["message"]["reply_to_message"]
    IN  IF "caption" \in DOMAIN quoted /\ quoted["caption"] # <<>>
        THEN quoted["caption"]
        ELSE IF "text" \in DOMAIN quoted THEN quoted["text"] ELSE <<>>

QuotesNoId(l) ==
    QuotingReply(l) /\ ~Contains(QuotedText(l), <<"I", "D", ":">>)

C5_Step ==
    QuotesNoId(last')
    => /\ calls' = calls
       /\ messages' = messages
       /\ emitted' = emitted
       /\ auto_replies' = auto_replies
       /\ Acknowledged(last')
       /\ last'.logged = <<"No user ID found in original message">>

(***************************************************************************)
(* C5. An operator's reply that quotes a message whose caption or text     *)
(* lacks "ID:" has no effect: no call to Telegram, no row stored, nothing  *)
(* emitted, the failed correlation logged, and the request acknowledged.   *)
(***************************************************************************)
C5_NoIdNoEffect == [][C5_Step]_vars

\* Such a reply, carrying a text to relay, was handled after another request.
C5_Witness ==
    /\ QuotesNoId(last)
    /\ "text" \in DOMAIN last.data["message"]
    /\ handled = 2
    /\ calls # <<>>

\* What C6 calls an invalid command, and asks of a step.
InvalidCommand(l) ==
    /\ l.endpoint = "send_message"
    /\ \/ "secure_token" \notin DOMAIN l.data
       \/ l.data["secure_token"] # SECURE_TOKEN
       \/ "sender_id" \notin DOMAIN l.data
       \/ l.data["sender_id"] = <<>>
       \/ "text" \notin DOMAIN l.data
       \/ l.data["text"] = <<>>

C6_Step ==
    InvalidCommand(last')
    => /\ Len(emitted') = Len(emitted) + 1
       /\ SubSeq(emitted', 1, Len(emitted)) = emitted
       /\ emitted'[Len(emitted')].event = "error"
       /\ emitted'[Len(emitted')].to = {last'.sid}
       /\ calls' = calls
       /\ messages' = messages
       /\ auto_replies' = auto_replies

(***************************************************************************)
(* C6. A send_message command with a wrong or missing secret, or with a    *)
(* missing or empty target id or text, makes the program emit one "error"  *)
(* event to the session it came from, and nothing else changes.            *)
(***************************************************************************)
C6_InvalidCommandOnlyErrors == [][C6_Step]_vars

\* A command with the right secret and an empty text came from session s2.
C6_Witness ==
    /\ InvalidCommand(last)
    /\ last.sid = "s2"
    /\ "secure_token" \in DOMAIN last.data
    /\ last.data["secure_token"] = SECURE_TOKEN
    /\ emitted[Len(emitted)].to = {"s2"}
    /\ emitted[Len(emitted)].data = [error |-> "Missing required fields"]

\* The rows of a user.
Records(user_id) ==
    { auto_replies[i] :
        i \in {j \in 1..Len(auto_replies) : auto_replies[j].user_id = user_id} }

(***************************************************************************)
(* C7. The gate's decision is its reference definition: true exactly when  *)
(* the user has no row, or the row has no instant, or the clock is past    *)
(* that instant plus the cooldown; so it is true for a user never seen.    *)
(***************************************************************************)
C7_GateIsReference ==
    \A user_id \in GateUsers \cup {<<"4", "2">>} :
       should_send_auto_reply(auto_replies, user_id, now)
       = ( \/ Records(user_id) = {}
           \/ \E r \in Records(user_id) :
                 \/ "last_auto_reply" \notin DOMAIN r
                 \/ now > r.last_auto_reply + COOLDOWN_HOURS )

\* The cooldown of a recorded user has just elapsed, and the gate is open.
C7_Witness ==
    \E user_id \in DOMAIN fired :
       /\ now = fired[user_id] + COOLDOWN_HOURS + 1
       /\ should_send_auto_reply(auto_replies, user_id, now)

(***************************************************************************)
(* C8. After update_auto_reply_record(U) at the instant t, and until the   *)
(* next one for U, the gate is closed for U from t to t + cooldown, the    *)
(* end included, and open after it, whatever was recorded for other users. *)
(***************************************************************************)
C8_ClosedForTheCooldown ==
    \A user_id \in DOMAIN fired :
       should_send_auto_reply(auto_replies, user_id, now)
       = (now > fired[user_id] + COOLDOWN_HOURS)

\* At the last instant of U's cooldown, another user recorded after U did.
C8_Witness ==
    \E u \in DOMAIN fired, v \in DOMAIN fired :
       /\ u # v
       /\ fired[v] > fired[u]
       /\ now = fired[u] + COOLDOWN_HOURS
       /\ ~should_send_auto_reply(auto_replies, u, now)

\* The marker of a chat, and what C9 asks of a step.
Marker(chat_id) == <<"(", "I", "D", ":", " ">> \o Str(chat_id) \o <<")">>

C9_Step ==
    ( /\ PrivateText(last')
      /\ ~FromOperator(last')
      /\ \A i \in 1..Len(auto_replies) :
            auto_replies[i].user_id # Str(ChatOf(last').id)
      /\ Acknowledged(last')
      /\ last'.logged = <<>> )
    => LET stored == Added(messages, messages')
           called == Added(calls, calls')
           pushed == Added(emitted, emitted')
           user == Str(ChatOf(last').id)
           text == last'.data["message"]["text"]
       IN  /\ SubSeq(messages', 1, Len(messages)) = messages
           /\ Len(stored) = 2
           /\ stored[1].sender_id = user
           /\ stored[1].sender_name = NameOf(last')
           /\ stored[1].text = text
           /\ stored[2].sender_name = <<"B", "o", "t">>
           /\ stored[2].text = WELCOME_MESSAGE
           /\ Len(called) = 2
           /\ \A i \in 1..2 : called[i].ok /\ called[i].api = "sendMessage"
           /\ called[1].chat_id = FORWARD_TO_ID
           /\ Contains(called[1].text, Marker(ChatOf(last').id))
           /\ called[2].chat_id = user
           /\ called[2].text = WELCOME_MESSAGE
           /\ Len(pushed) = 2
           /\ \A i \in 1..2 :
                 /\ pushed[i].event = "new_message"
                 /\ pushed[i].to = Sessions
                 /\ pushed[i].data.sender_name = stored[i].sender_name
                 /\ pushed[i].data.text = stored[i].text

(***************************************************************************)
(* C9. A private text of an end user who has no UserAutoReply row, with    *)
(* every call and commit succeeding, appends the user's message and then   *)
(* the Bot's welcome to the table, sends the operator one forward that     *)
(* holds "(ID: <user id>)" and the user one welcome, and broadcasts both   *)
(* stored messages.                                                        *)
(***************************************************************************)
C9_NewUserEndToEnd == [][C9_Step]_vars

\* A new user's text went through after another request had been handled.
C9_Witness ==
    /\ PrivateText(last)
    /\ ~FromOperator(last)
    /\ Acknowledged(last)
    /\ last.logged = <<>>
    /\ handled = 2
    /\ Len(messages) >= 3
    /\ messages[Len(messages)].sender_name = <<"B", "o", "t">>
    /\ messages[Len(messages) - 1].sender_id = Str(ChatOf(last).id)
    /\ Len(Welcomes(calls)) = 1

(***************************************************************************)
(* C10. A valid send_message command does what the operator's text reply   *)
(* does: every stored message whose sender name is "You" has the           *)
(* operator's forwarding id as its sender id.                              *)
(***************************************************************************)
C10_YouIsTheOperator ==
    \A i \in 1..Len(messages) :
       messages[i].sender_name = You => messages[i].sender_id = FORWARD_TO_ID

(***************************************************************************)
(* C11. With more messages stored than the limit k, the window read for    *)
(* the dashboard page is the k messages appended last, in the order they   *)
(* were appended, also when stored messages carry equal timestamps.        *)
(***************************************************************************)
C11_RecentWindow ==
    ( /\ last.endpoint = "home"
      /\ "messages" \in DOMAIN last.response
      /\ last.limit < Len(messages) )
    => last.response.messages
          = SubSeq(messages, Len(messages) - last.limit + 1, Len(messages))

\* What C12 asks of a step.
C12_Step ==
    auto_replies' # auto_replies
    => /\ PrivateMessage(last')
       /\ ~FromOperator(last')
       /\ \E i \in (Len(calls) + 1)..Len(calls') :
             /\ calls'[i].by = "handle_auto_reply"
             /\ calls'[i].ok
             /\ calls'[i].api = "sendMessage"
             /\ calls'[i].chat_id = Str(ChatOf(last').id)
             /\ calls'[i].text = WELCOME_MESSAGE
       /\ \A i \in 1..Len(auto_replies) :
             auto_replies[i].user_id # Str(ChatOf(last').id)
             => auto_replies'[i] = auto_replies[i]
       /\ \E i \in 1..Len(auto_replies') :
             /\ auto_replies'[i].user_id = Str(ChatOf(last').id)
             /\ auto_replies'[i].last_auto_reply = now
             /\ i <= Len(auto_replies) =>
                   auto_replies[i].user_id = auto_replies'[i].user_id
       /\ Len(auto_replies') \in {Len(auto_replies), Len(auto_replies) + 1}

(***************************************************************************)
(* C12. The table UserAutoReply changes only in a step that handles a      *)
(* private text or photo of an end user and in which the welcome message   *)
(* was delivered to that user, and then only that user's row is created    *)
(* or set to the instant of the step: an operator's reply, a dashboard     *)
(* command, a relay without a welcome, a welcome whose send failed and a   *)
(* failed correlation leave the table as it was.                           *)
(***************************************************************************)
C12_RecordsOnlyAfterWelcome == [][C12_Step]_vars

\* The row of an end user was created by the second request handled, a
\* photo, after the welcome was delivered to that user.
C12_Witness ==
    /\ PrivatePhoto(last)
    /\ ~FromOperator(last)
    /\ handled = 2
    /\ Str(ChatOf(last).id) \in DOMAIN fired
    /\ \E i \in 1..Len(auto_replies) :
          /\ auto_replies[i].user_id = Str(ChatOf(last).id)
          /\ auto_replies[i].last_auto_reply = now
    /\ calls[Len(calls)].by = "handle_auto_reply"
    /\ calls[Len(calls)].ok

\* What C13 asks of a state, and of a step.
C13_State ==
    \A i, j \in 1..Len(messages) : i < j => messages[i].id < messages[j].id

C13_Step ==
    /\ Len(messages') >= Len(messages)
    /\ SubSeq(messages', 1, Len(messages)) = messages

(***************************************************************************)
(* C13. The table Message is append-only: every step leaves the rows it    *)
(* found as they were, in place, as a prefix of the table, so that the     *)
(* table of every earlier state is a prefix of the table of every later    *)
(* one; and the ids are strictly increasing in insertion order.            *)
(***************************************************************************)
C13_AppendOnly == []C13_State /\ [][C13_Step]_vars

\* Two requests stored four rows: two users' texts, each with its welcome.
C13_Witness ==
    /\ handled = 2
    /\ Len(messages) = 4
    /\ messages[1].sender_id # messages[3].sender_id
    /\ messages[4].sender_name = <<"B", "o", "t">>
    /\ messages[4].id = 4

\* The new_message events of a sequence of events, and whether an event
\* carries a row: the row's name and text, its instant as format_datetime
\* renders it, and its sender id. The event of a user's message holds the
\* chat id as the number it arrived as, where the row holds its decimal
\* text; no user of the model is named "You" or "Bot".
NewMessages(events) == SelectSeq(events, LAMBDA e : e.event = "new_message")

Carries(e, row) ==
    /\ e.data.sender_name = row.sender_name
    /\ e.data.text = row.text
    /\ e.data.timestamp = format_datetime(row.timestamp)
    /\ IF row.sender_name \in {You, <<"B", "o", "t">>}
       THEN e.data.sender_id = row.sender_id
       ELSE Str(e.data.sender_id) = row.sender_id

\* The events carry, in order, some of the rows.
RECURSIVE CarriedInOrder(_, _)
CarriedInOrder(events, rows) ==
    IF events = <<>> THEN TRUE
    ELSE IF rows = <<>> THEN FALSE
    ELSE IF Carries(events[1], rows[1])
    THEN CarriedInOrder(Tail(events), Tail(rows))
    ELSE CarriedInOrder(events, Tail(rows))

\* What C14 asks of a state, and of a step.
C14_State == CarriedInOrder(NewMessages(emitted), messages)

C14_Step ==
    CarriedInOrder(NewMessages(Added(emitted, emitted')),
                   Added(messages, messages'))

(***************************************************************************)
(* C14. Every new_message event carries a row that the same request        *)
(* stored: the events a step emits carry, in order, rows that the step     *)
(* appended to the table Message (so a commit that failed is followed by   *)
(* no event for its row), and in every state the events emitted so far     *)
(* carry, in order, a subsequence of the table.                            *)
(***************************************************************************)
C14_BroadcastsAreStored == []C14_State /\ [][C14_Step]_vars

\* The second request stored a user's photo and broadcast it, and the
\* commit of the welcome's row failed after the welcome was delivered.
C14_Witness ==
    /\ handled = 2
    /\ PrivatePhoto(last)
    /\ last.logged = <<"Error sending auto-reply">>
    /\ calls[Len(calls)].by = "handle_auto_reply"
    /\ calls[Len(calls)].ok
    /\ Str(ChatOf(last).id) \in DOMAIN fired
    /\ messages[Len(messages)].sender_id = Str(ChatOf(last).id)
    /\ Carries(emitted[Len(emitted)], messages[Len(messages)])

(***************************************************************************)
(* C15. Every row a request stores is broadcast once before the request    *)
(* ends: the new_message events a step emits are as many as the rows it    *)
(* appended to the table Message, and the i-th event carries the i-th row. *)
(***************************************************************************)
C15_StoredIsBroadcast ==
    [][LET stored == Added(messages, messages')
           pushed == NewMessages(Added(emitted, emitted'))
       IN  /\ Len(pushed) = Len(stored)
           /\ \A i \in 1..Len(stored) :
                 /\ pushed[i].to = Sessions
                 /\ Carries(pushed[i], stored[i])]_vars

\* The send that a branch makes before it stores a row of the given sender
\* name and text was delivered, among the calls of a step that handled l:
\* the welcome to the sender of l, the dashboard's text to its target, the
\* operator's reply (a photo when the reply carries one, else its text), or
\* the forward of a user's photo to the operator.
Bot == <<"B", "o", "t">>

SentFor(l, sender_name, text, called) ==
    \E i \in 1..Len(called) :
       /\ called[i].ok
       /\ IF sender_name = Bot
          THEN /\ called[i].by = "handle_auto_reply"
               /\ called[i].api = "sendMessage"
               /\ called[i].chat_id = Str(ChatOf(l).id)
               /\ called[i].text = text
          ELSE IF l.endpoint = "send_message"
          THEN /\ called[i].by = "handle_send_message"
               /\ called[i].api = "sendMessage"
               /\ called[i].chat_id = l.data["sender_id"]
               /\ called[i].text = text
          ELSE IF QuotingReply(l) /\ "photo" \in DOMAIN l.data["message"]
          THEN /\ called[i].by = "handle_customer_service_reply"
               /\ called[i].api = "sendPhoto"
               /\ called[i].photo = LastFileId(l.data["message"])
          ELSE IF QuotingReply(l)
          THEN /\ called[i].by = "handle_customer_service_reply"
               /\ called[i].api = "sendMessage"
               /\ called[i].text = text
          ELSE /\ PrivatePhoto(l)
               /\ called[i].by = "handle_photo_message"
               /\ called[i].api = "sendPhoto"
               /\ called[i].chat_id = FORWARD_TO_ID
               /\ called[i].photo = LastFileId(l.data["message"])

\* The row, or the event, is the one the text branch makes of a user's text.
OfTextBranch(l, sender_name) == PrivateText(l) /\ sender_name # Bot

C16_Step ==
    LET stored == Added(messages, messages')
        pushed == NewMessages(Added(emitted, emitted'))
        called == Added(calls, calls')
    IN  /\ \A i \in 1..Len(stored) :
              \/ OfTextBranch(last', stored[i].sender_name)
              \/ SentFor(last', stored[i].sender_name, stored[i].text, called)
        /\ \A i \in 1..Len(pushed) :
              \/ OfTextBranch(last', pushed[i].data.sender_name)
              \/ SentFor(last', pushed[i].data.sender_name,
                         pushed[i].data.text, called)

(***************************************************************************)
(* C16. In the operator-reply, user-photo, dashboard and auto-reply        *)
(* branches a row is stored, and an event emitted, only in a step in which *)
(* the send of its branch was delivered: when that send fails the branch   *)
(* stores and emits nothing, so that a message may be sent and not logged  *)
(* but never logged and not sent.                                          *)
(***************************************************************************)
C16_SendBeforeStore == [][C16_Step]_vars

\* Sent but not logged: the dashboard's text was delivered to its target
\* and the commit of its row failed.
C16_Witness ==
    /\ handled = 2
    /\ last.endpoint = "send_message"
    /\ last.logged = <<"Error sending message">>
    /\ calls[Len(calls)].by = "handle_send_message"
    /\ calls[Len(calls)].ok
    /\ Len(SelectSeq(messages, LAMBDA m : m.sender_name = You))
          < Len(SelectSeq(calls, LAMBDA c : c.ok /\ c.by = "handle_send_message"))

(***************************************************************************)
(* C17. When a call to Telegram fails while a user's text or photo is      *)
(* relayed (getFile, sendPhoto or the forward of the text), the handling   *)
(* of the request stops there: the failed call is the last call of the     *)
(* step, the step emits nothing, stores nothing but the row the text       *)
(* branch commits before its forward, and leaves the table UserAutoReply   *)
(* as it was: the auto-reply does not run and no welcome is sent.          *)
(***************************************************************************)
C17_FailedRelayStops ==
    [][LET stored == Added(messages, messages')
           called == Added(calls, calls')
       IN  \A i \in 1..Len(called) :
              ( /\ ~called[i].ok
                /\ called[i].by
                      \in {"handle_text_message", "handle_photo_message"} )
              => /\ i = Len(called)
                 /\ emitted' = emitted
                 /\ auto_replies' = auto_replies
                 /\ \A j \in 1..Len(stored) : stored[j].sender_name # Bot
                 /\ Len(stored) = IF PrivateText(last') THEN 1 ELSE 0]_vars

(***************************************************************************)
(* C18. With two requests of the same end user handled at once, the        *)
(* gate's query, the welcome's send and the upsert of the one interleaved  *)
(* with those of the other: two welcomes delivered to a user are more than *)
(* the cooldown apart, and no two rows of UserAutoReply hold the same user *)
(* id.                                                                     *)
(***************************************************************************)
C18_OneWelcomeOneRecord ==
    /\ \A i, j \in 1..Len(calls) :
          ( /\ i < j
            /\ calls[i].ok /\ calls[i].by = "handle_auto_reply"
            /\ calls[j].ok /\ calls[j].by = "handle_auto_reply"
            /\ calls[i].chat_id = calls[j].chat_id )
          => calls[j].at > calls[i].at + COOLDOWN_HOURS
    /\ \A i, j \in 1..Len(auto_replies) :
          i < j => auto_replies[i].user_id # auto_replies[j].user_id

\* What C19 asks of a step.
C19_Step ==
    QuotingReply(last')
    => LET stored == Added(messages, messages')
           called == Added(calls, calls')
           pushed == Added(emitted, emitted')
           relays == SelectSeq(called, LAMBDA c : c.api # "getFile")
           message == last'.data["message"]
       IN  /\ Len(stored) <= 1
           /\ \A i \in 1..Len(stored) :
                 /\ stored[i].sender_id = FORWARD_TO_ID
                 /\ stored[i].sender_name = You
           /\ \A i \in 1..Len(called) :
                 called[i].by = "handle_customer_service_reply"
           /\ Len(relays) <= 1
           /\ \A i \in 1..Len(relays) :
                 relays[i].chat_id = TargetUserId(QuotedText(last'))
           /\ auto_replies' = auto_replies
           /\ Len(pushed) <= 1
           /\ \A i \in 1..Len(pushed) :
                 /\ pushed[i].event = "new_message"
                 /\ pushed[i].data.sender_name = You
           /\ ("text" \notin DOMAIN message /\ "photo" \notin DOMAIN message)
              => /\ calls' = calls
                 /\ messages' = messages
                 /\ emitted' = emitted

====
